---- MODULE Spec2Model ----
(***************************************************************************)
(* A model of cicada's shell core (src/src/shell.rs, src/src/main.rs):     *)
(* the job table of Shell, the expansion passes of do_expansion, the       *)
(* terminal handoff of give_terminal_to and the loop of main.              *)
(* Strings are sequences of one-character strings, so that the code's      *)
(* character loops and regular expressions are computed, not assumed.      *)
(***************************************************************************)
EXTENDS Integers, Sequences, FiniteSets, TLC

VARIABLES
    jobs,    \* Shell.jobs
    last,    \* the last call on the job table: its name, arguments, result
    tokens,  \* the token vector do_expansion rewrites
    orig,    \* the token vector do_expansion was called with
    pre,     \* the token vector the last pass of do_expansion started from
    alias,   \* Shell.alias
    pc,      \* where do_expansion stands: the pass it runs next
    cmd_args,   \* main: the kind of command line the shell was started with
    no_exit,    \* main: the environment variable NO_EXIT_ON_CTRL_D
    mpc,        \* main: where main stands
    rr,         \* main: what the last rl.read_line() returned
    run_status, \* main: what the last execute::run_procs returned
    exit_code,  \* main: the exit status of the shell process
    reaps,      \* main: calls of jobc::try_wait_bg_jobs in this iteration
    sigmask,    \* the signals the shell's thread blocks
    old_mask,   \* give_terminal_to: its local old_mask
    entry_mask, \* give_terminal_to: the signal mask it was called under
    gid_arg,    \* give_terminal_to: its argument
    tty_pgrp,   \* the foreground process group of the terminal
    given,      \* give_terminal_to: its local given, then its return value
    rcode,      \* give_terminal_to: what tcsetpgrp returned
    tpc         \* where give_terminal_to stands

jobVars == <<jobs, last>>
expVars == <<tokens, orig, pre, alias, pc>>
mainVars == <<cmd_args, no_exit, mpc, rr, run_status, exit_code, reaps>>
termVars == <<sigmask, old_mask, entry_mask, gid_arg, tty_pgrp, given, rcode, tpc>>
vars == <<jobs, last, tokens, orig, pre, alias, pc,
          cmd_args, no_exit, mpc, rr, run_status, exit_code, reaps,
          sigmask, old_mask, entry_mask, gid_arg, tty_pgrp, given, rcode, tpc>>

(***************************************************************************)
(* Bounds of the model.                                                    *)
(***************************************************************************)
MaxPids == 2
MaxGid == 2

Gids == 1..MaxGid
Pids == 1..MaxPids

\* The job id at which the lookup loops of shell.rs give up.
JobIdLimit == 65535

(***************************************************************************)
(* Strings.                                                                *)
(***************************************************************************)
EndsWith(s, t) ==
    /\ Len(s) >= Len(t)
    /\ SubSeq(s, Len(s) - Len(t) + 1, Len(s)) = t

Amp == <<"&">>
SpaceAmp == <<" ", "&">>

CmdInputs == { <<"s">> }

(***************************************************************************)
(* The job table: Shell.jobs, a map from job id to Job.                    *)
(***************************************************************************)
NoJobs == [i \in {} |-> 0]

Job(id, gid, pids, cmd, status, report) ==
    [id |-> id, gid |-> gid, pids |-> pids, cmd |-> cmd,
     status |-> status, report |-> report]

MapPut(m, k, v) == [x \in DOMAIN m \cup {k} |-> IF x = k THEN v ELSE m[x]]
MapRemove(m, k) == [x \in DOMAIN m \ {k} |-> m[x]]

RemoveAt(s, i) == SubSeq(s, 1, i - 1) \o SubSeq(s, i + 1, Len(s))

\* insert_job's loop from index i on.
RECURSIVE InsertLoop(_, _, _, _, _, _, _)
InsertLoop(js, i, gid, pid, cmd, status, bg) ==
    IF i \in DOMAIN js
    THEN IF js[i].gid = gid
         THEN [js EXCEPT ![i].pids = Append(@, pid)]
         ELSE InsertLoop(js, i + 1, gid, pid, cmd, status, bg)
    ELSE LET c == IF bg /\ ~EndsWith(cmd, Amp) THEN cmd \o SpaceAmp ELSE cmd
         IN  MapPut(js, i, Job(i, gid, <<pid>>, c, status, bg))

\* A slip of insert_job: the new Job is appended after the highest id.
InsertJobAppend(js, gid, pid, cmd, status, bg) ==
    LET hit == {i \in DOMAIN js : js[i].gid = gid}
        top == IF DOMAIN js = {} THEN 0
               ELSE CHOOSE i \in DOMAIN js : \A j \in DOMAIN js : j <= i
    IN  IF hit # {}
        THEN LET i == CHOOSE x \in hit : \A y \in hit : x <= y
             IN  [js EXCEPT ![i].pids = Append(@, pid)]
        ELSE MapPut(js, top + 1, Job(top + 1, gid, <<pid>>, cmd, status, bg))

InsertJob(js, gid, pid, cmd, status, bg) ==
    InsertLoop(js, 1, gid, pid, cmd, status, bg)

\* The index the loops of get_job_by_gid, mark_job_as_* and
\* remove_pid_from_job stop at: the first id in 1..JobIdLimit-1 whose Job
\* has this gid, and JobIdLimit when there is none.
FindGid(js, gid) ==
    LET hit == {i \in DOMAIN js : i < JobIdLimit /\ js[i].gid = gid}
    IN  IF hit = {} THEN JobIdLimit
        ELSE CHOOSE x \in hit : \A y \in hit : x <= y

\* slice::binary_search as the standard library computes it: probe the
\* middle of [left, right), go right on Less, left on Greater.  Returns the
\* index found (1-based) or 0 for Err.
RECURSIVE BinarySearchLoop(_, _, _, _)
BinarySearchLoop(s, x, left, right) ==
    IF left >= right THEN 0
    ELSE LET mid == left + ((right - left) \div 2)
         IN  IF s[mid + 1] < x THEN BinarySearchLoop(s, x, mid + 1, right)
             ELSE IF s[mid + 1] > x THEN BinarySearchLoop(s, x, left, mid)
             ELSE mid + 1

BinarySearch(s, x) == BinarySearchLoop(s, x, 0, Len(s))

\* A slip of remove_pid_from_job: the emptied Job stays in the table.
RemovePidKeepsJob(js, gid, pid) ==
    LET i == FindGid(js, gid)
    IN  IF js = NoJobs \/ i = JobIdLimit THEN [jobs |-> js, ret |-> <<>>]
        ELSE LET k == BinarySearch(js[i].pids, pid)
                 p == IF k # 0 THEN RemoveAt(js[i].pids, k) ELSE js[i].pids
             IN  [jobs |-> [js EXCEPT ![i].pids = p], ret |-> <<>>]

\* remove_pid_from_job: the table afterwards and the value returned
\* (<<>> for None, <<job>> for Some(job)).
RemovePidFromJob(js, gid, pid) ==
    IF js = NoJobs THEN [jobs |-> js, ret |-> <<>>]
    ELSE LET i == FindGid(js, gid)
         IN  IF i = JobIdLimit THEN [jobs |-> js, ret |-> <<>>]
             ELSE LET k == BinarySearch(js[i].pids, pid)
                      p == IF k # 0 THEN RemoveAt(js[i].pids, k)
                           ELSE js[i].pids
                      js2 == [js EXCEPT ![i].pids = p]
                  IN  IF p = <<>>
                      THEN [jobs |-> MapRemove(js2, i), ret |-> <<js2[i]>>]
                      ELSE [jobs |-> js2, ret |-> <<>>]

MarkJobAsRunning(js, gid, bg) ==
    IF js = NoJobs THEN js
    ELSE LET i == FindGid(js, gid)
         IN  IF i = JobIdLimit THEN js
             ELSE [js EXCEPT ![i].status = "Running",
                             ![i].report = bg,
                             ![i].cmd = IF bg /\ ~EndsWith(@, SpaceAmp)
                                        THEN @ \o SpaceAmp ELSE @]

MarkJobAsStopped(js, gid) ==
    IF js = NoJobs THEN js
    ELSE LET i == FindGid(js, gid)
         IN  IF i = JobIdLimit THEN js
             ELSE [js EXCEPT ![i].status = "Stopped"]

AllPids(js) == UNION { {js[i].pids[k] : k \in 1..Len(js[i].pids)} : i \in DOMAIN js }
PidCount(js) ==
    LET RECURSIVE Sum(_)
        Sum(S) == IF S = {} THEN 0
                  ELSE LET i == CHOOSE x \in S : TRUE
                       IN  Len(js[i].pids) + Sum(S \ {i})
    IN  Sum(DOMAIN js)

NoCall == [op |-> "new", gid |-> 0, pid |-> 0, ret |-> <<>>]

\* insert_job(gid, pid, cmd, status, bg).  The pid is the pid of a child just
\* forked, so it is the pid of no process still in the table.
InsertJobCall ==
    \E gid \in Gids, pid \in Pids, cmd \in CmdInputs, bg \in BOOLEAN :
        /\ pid \notin AllPids(jobs)
        /\ PidCount(jobs) < MaxPids
        /\ jobs' = InsertJob(jobs, gid, pid, cmd, "Running", bg)
        /\ last' = [op |-> "insert_job", gid |-> gid, pid |-> pid,
                    ret |-> <<>>]

RemovePidCall ==
    \E gid \in Gids, pid \in Pids :
        LET r == RemovePidFromJob(jobs, gid, pid)
        IN  /\ jobs' = r.jobs
            /\ last' = [op |-> "remove_pid_from_job", gid |-> gid, pid |-> pid,
                        ret |-> r.ret]

MarkRunningCall ==
    \E gid \in Gids, bg \in BOOLEAN :
        /\ jobs' = MarkJobAsRunning(jobs, gid, bg)
        /\ last' = [op |-> "mark_job_as_running", gid |-> gid, pid |-> 0,
                    ret |-> <<>>]

MarkStoppedCall ==
    \E gid \in Gids :
        /\ jobs' = MarkJobAsStopped(jobs, gid)
        /\ last' = [op |-> "mark_job_as_stopped", gid |-> gid, pid |-> 0,
                    ret |-> <<>>]

(***************************************************************************)
(* Tokens.  A token is (sep, word): sep is the quoting context ("" for an  *)
(* unquoted word), word a string.                                          *)
(***************************************************************************)
Tok(sep, word) == [sep |-> sep, word |-> word]

Contains(s, c) == \E i \in 1..Len(s) : s[i] = c

StartsWith(s, t) == Len(s) >= Len(t) /\ SubSeq(s, 1, Len(t)) = t

Drop(s, n) == SubSeq(s, n + 1, Len(s))

\* Vec::remove(i) and Vec::insert(i, x) with 0-based i; both panic when the
\* index is out of range, which the callers below test with InRange first.
VecRemove(v, i) == SubSeq(v, 1, i) \o SubSeq(v, i + 2, Len(v))
VecInsert(v, i, x) == SubSeq(v, 1, i) \o <<x>> \o SubSeq(v, i + 1, Len(v))

\* The backquote character (the module's lexer accepts no backquote inside a
\* string, so the character is written by name).
Backquote == "<backquote>"

QuoteChars == {"'", "\"", Backquote}

\* parsers::parser_line::cmd_to_tokens on a line of plain words and quoted
\* runs: outside a quote whitespace ends a token; a quote character opens a
\* run that the next such character closes, and the run is a token with
\* that sep.
RECURSIVE TokenizeFrom(_, _, _, _, _, _)
TokenizeFrom(line, i, q, cur, has, out) ==
    IF i > Len(line)
    THEN IF has THEN Append(out, Tok(q, cur)) ELSE out
    ELSE LET c == line[i]
         IN  IF q # ""
             THEN IF c = q
                  THEN TokenizeFrom(line, i + 1, "", <<>>, FALSE,
                                    Append(out, Tok(q, cur)))
                  ELSE TokenizeFrom(line, i + 1, q, Append(cur, c), TRUE, out)
             ELSE IF c = " "
             THEN TokenizeFrom(line, i + 1, "", <<>>, FALSE,
                               IF has THEN Append(out, Tok("", cur)) ELSE out)
             ELSE IF c \in QuoteChars
             THEN TokenizeFrom(line, i + 1, c, <<>>, TRUE,
                               IF has THEN Append(out, Tok("", cur)) ELSE out)
             ELSE TokenizeFrom(line, i + 1, "", Append(cur, c), TRUE, out)

CmdToTokens(line) == TokenizeFrom(line, 1, "", <<>>, FALSE, <<>>)

(***************************************************************************)
(* Pass 1: expand_alias.                                                   *)
(***************************************************************************)
NoAlias == [w \in {} |-> <<>>]

IsAlias(al, name) == name \in DOMAIN al

\* Shell::get_alias_content: <<>> for None, <<body>> for Some(body).
GetAliasContent(al, name) ==
    IF name \in DOMAIN al /\ al[name] # <<>> THEN <<al[name]>> ELSE <<>>

Pipe == <<"|">>

\* The scan of expand_alias from token i on: the (index, body) pairs it
\* pushes on buff, in the order pushed.  Indices are the code's, from 0.
RECURSIVE AliasScan(_, _, _, _)
AliasScan(al, toks, i, isHead) ==
    IF i > Len(toks) THEN <<>>
    ELSE LET t == toks[i]
         IN  IF t.sep = "" /\ t.word = Pipe
             THEN AliasScan(al, toks, i + 1, TRUE)
             ELSE IF ~isHead \/ ~IsAlias(al, t.word)
             THEN AliasScan(al, toks, i + 1, FALSE)
             ELSE LET v == GetAliasContent(al, t.word)
                  IN  (IF v # <<>> THEN <<[idx |-> i - 1, text |-> v[1]]>>
                       ELSE <<>>)
                      \o AliasScan(al, toks, i + 1, FALSE)

\* tokens.insert(i, item) for the items of a vector taken last to first.
RECURSIVE InsertAllRev(_, _, _)
InsertAllRev(v, i, items) ==
    IF items = <<>> THEN v
    ELSE InsertAllRev(VecInsert(v, i, items[Len(items)]), i,
                      SubSeq(items, 1, Len(items) - 1))

\* The second loop of expand_alias: buff taken last to first.
RECURSIVE AliasApply(_, _)
AliasApply(toks, buff) ==
    IF buff = <<>> THEN toks
    ELSE LET b == buff[Len(buff)]
         IN  AliasApply(InsertAllRev(VecRemove(toks, b.idx), b.idx,
                                     CmdToTokens(b.text)),
                        SubSeq(buff, 1, Len(buff) - 1))

ExpandAlias(al, toks) == AliasApply(toks, AliasScan(al, toks, 1, TRUE))

(***************************************************************************)
(* Pass 2: expand_home.                                                    *)
(***************************************************************************)
\* tools::get_user_home().
Home == <<"/", "h">>

\* The index after the run of spaces that starts at p (p itself when s[p]
\* is no space).
RECURSIVE SpaceRunEnd(_, _)
SpaceRunEnd(s, p) ==
    IF p <= Len(s) /\ s[p] = " " THEN SpaceRunEnd(s, p + 1) ELSE p

At(s, i) == IF i >= 1 /\ i <= Len(s) THEN s[i] ELSE ""

\* The four regular expressions of expand_home, in the order of its vector:
\*   1  ( +)~( +)     2  ( +)~(/)     3  ^( *)~(/)     4  ( +)~( *$)
\* HomeMatch(k, s, p) is the match of expression k that starts at p:
\* <<position of the tilde, index after the match>>, or <<>> for no match.
HomeMatch(k, s, p) ==
    LET q == SpaceRunEnd(s, p)
        r == SpaceRunEnd(s, q + 1)
    IN  IF At(s, q) # "~" THEN <<>>
        ELSE IF k = 1 THEN (IF q > p /\ r > q + 1 THEN <<q, r>> ELSE <<>>)
        ELSE IF k = 2 THEN (IF q > p /\ At(s, q + 1) = "/"
                            THEN <<q, q + 2>> ELSE <<>>)
        ELSE IF k = 3 THEN (IF p = 1 /\ At(s, q + 1) = "/"
                            THEN <<q, q + 2>> ELSE <<>>)
        ELSE (IF q > p /\ r = Len(s) + 1 THEN <<q, r>> ELSE <<>>)

HomePatterns == 1..4

\* Regex::replace_all(s, "$head" + home + "$tail") for expression k, from
\* position p on: matches are taken leftmost first and do not overlap.
RECURSIVE HomeReplaceAll(_, _, _)
HomeReplaceAll(k, s, p) ==
    IF p > Len(s) THEN <<>>
    ELSE LET m == HomeMatch(k, s, p)
         IN  IF m = <<>> THEN <<s[p]>> \o HomeReplaceAll(k, s, p + 1)
             ELSE SubSeq(s, p, m[1] - 1) \o Home \o SubSeq(s, m[1] + 1, m[2] - 1)
                  \o HomeReplaceAll(k, s, m[2])

\* needs_expand_home: ( +~ +)|( +~/)|(^ *~/)|( +~ *$) matches somewhere.
NeedsExpandHome(s) ==
    \E k \in HomePatterns, p \in 1..Len(s) : HomeMatch(k, s, p) # <<>>

ExpandHomeWord(s) ==
    HomeReplaceAll(4, HomeReplaceAll(3, HomeReplaceAll(2, HomeReplaceAll(1, s, 1), 1), 1), 1)

\* expand_home: buff holds the rewritten words by index and is written back
\* by index, so its iteration order does not matter.
ExpandHome(toks) ==
    [i \in 1..Len(toks) |->
        IF toks[i].sep # "" \/ ~NeedsExpandHome(toks[i].word) THEN toks[i]
        ELSE Tok(toks[i].sep, ExpandHomeWord(toks[i].word))]

(***************************************************************************)
(* Pass 3: expand_brace.                                                   *)
(***************************************************************************)
\* tools::should_extend_brace: the word holds "{", then ",", then "}".
ShouldExtendBrace(w) ==
    \E i, j, k \in 1..Len(w) :
        i < j /\ j < k /\ w[i] = "{" /\ w[j] = "," /\ w[k] = "}"

\* tools::wrap_sep_string: the word back inside its quotes.
WrapSepString(sep, w) == IF sep = "" THEN w ELSE <<sep>> \o w \o <<sep>>

\* The character loop of expand_brace over one word, from character i on.
\* st holds the loop's variables: _prefix, _token, _result, only_tail_left,
\* start_sign_found.
RECURSIVE BraceChars(_, _, _)
BraceChars(w, i, st) ==
    IF i > Len(w) THEN st
    ELSE LET c == w[i]
             push == IF st.token # <<>>
                     THEN [st EXCEPT !.result = Append(@, st.token),
                                     !.token = <<>>]
                     ELSE st
         IN  BraceChars(w, i + 1,
                 IF c = "{" THEN [st EXCEPT !.found = TRUE]
                 ELSE IF ~st.found THEN [st EXCEPT !.prefix = Append(@, c)]
                 ELSE IF st.tail THEN [st EXCEPT !.token = Append(@, c)]
                 ELSE IF c = "}" THEN [push EXCEPT !.tail = TRUE]
                 ELSE IF c = "," THEN push
                 ELSE [st EXCEPT !.token = Append(@, c)])

\* The words one brace word expands to: prefix + alternative + suffix.
BraceItems(w) ==
    LET st == BraceChars(w, 1, [prefix |-> <<>>, token |-> <<>>,
                                result |-> <<>>, tail |-> FALSE,
                                found |-> FALSE])
    IN  [j \in 1..Len(st.result) |-> st.prefix \o st.result[j] \o st.token]

\* The result vector expand_brace builds for one token's line: the line is
\* tokenized again and each of its tokens expanded or wrapped.
RECURSIVE BraceArgs(_, _)
BraceArgs(args, i) ==
    IF i > Len(args) THEN <<>>
    ELSE (IF args[i].sep = "" /\ ShouldExtendBrace(args[i].word)
          THEN BraceItems(args[i].word)
          ELSE <<WrapSepString(args[i].sep, args[i].word)>>)
         \o BraceArgs(args, i + 1)

\* The keys of expand_brace's buff: the 0-based indices of the tokens it
\* rewrites.
BraceKeys(toks) ==
    {i - 1 : i \in {x \in 1..Len(toks) :
                    toks[x].sep = "" /\ ShouldExtendBrace(toks[x].word)}}

BraceBuff(toks) ==
    [k \in BraceKeys(toks) |-> BraceArgs(CmdToTokens(toks[k + 1].word), 1)]

\* The orders a HashMap with these keys can be iterated in: std's default
\* hasher is seeded at random, so any order can come up.
Orders(keys) ==
    {o \in [1..Cardinality(keys) -> keys] :
        \A a, b \in 1..Cardinality(keys) : a # b => o[a] # o[b]}

\* tokens.insert(i + j, (sep, token)) for the words of result, first to last,
\* the sep chosen by whether the word holds a space.
RECURSIVE InsertWords(_, _, _, _)
InsertWords(v, i, result, j) ==
    IF j > Len(result) THEN v
    ELSE InsertWords(
             VecInsert(v, i + j - 1,
                       Tok(IF Contains(result[j], " ") THEN "\"" ELSE "",
                           result[j])),
             i, result, j + 1)

\* The loop that writes buff back (the same loop ends expand_brace and
\* expand_glob): for each key in iteration order, remove the token at the key
\* and insert the result's words at key, key + 1, ...  Vec::remove panics
\* when the key is past the end.
RECURSIVE ApplyBuff(_, _, _, _)
ApplyBuff(toks, buff, order, n) ==
    IF n > Len(order) THEN [ok |-> TRUE, toks |-> toks]
    ELSE LET i == order[n]
         IN  IF i >= Len(toks) THEN [ok |-> FALSE, toks |-> toks]
             ELSE ApplyBuff(InsertWords(VecRemove(toks, i), i, buff[i], 1),
                            buff, order, n + 1)

(***************************************************************************)
(* Pass 4: expand_env.                                                     *)
(***************************************************************************)
Letters ==
    {"a", "b", "c", "d", "e", "f", "g", "h", "i", "j", "k", "l", "m",
     "n", "o", "p", "q", "r", "s", "t", "u", "v", "w", "x", "y", "z",
     "A", "B", "C", "D", "E", "F", "G", "H", "I", "J", "K", "L", "M",
     "N", "O", "P", "Q", "R", "S", "T", "U", "V", "W", "X", "Y", "Z"}
DigitChars == {"0", "1", "2", "3", "4", "5", "6", "7", "8", "9"}

\* [a-zA-Z0-9_] of env_in_token and [A-Za-z0-9\?\$_] of extend_env_blindly.
NameChars == Letters \cup DigitChars \cup {"_"}
KeyChars == NameChars \cup {"?", "$"}

DigitOf(n) == CASE n = 0 -> "0" [] n = 1 -> "1" [] n = 2 -> "2" [] n = 3 -> "3"
                [] n = 4 -> "4" [] n = 5 -> "5" [] n = 6 -> "6" [] n = 7 -> "7"
                [] n = 8 -> "8" [] n = 9 -> "9"

\* format!("{}", n) for n >= 0.
RECURSIVE FormatInt(_)
FormatInt(n) ==
    IF n < 10 THEN <<DigitOf(n)>>
    ELSE Append(FormatInt(n \div 10), DigitOf(n % 10))

\* The environment of one run: the OS environment (env::var), the shell's
\* own variables (Shell.envs), Shell.previous_status and libc::getpid().
OsEnv == (<<"A">> :> <<"x">>) @@ (<<"A", "B">> :> <<"o", "s">>)
ShellEnvs == (<<"B">> :> <<"y">>) @@ (<<"A", "B">> :> <<"s", "h">>)
PreviousStatus == 12
ProcessId == 7

\* env_in_token: the word is "$$" or "$?", or \$\{?[a-zA-Z][a-zA-Z0-9_]+\}?
\* matches somewhere in it.
EnvInToken(w) ==
    \/ w = <<"$", "$">>
    \/ w = <<"$", "?">>
    \/ \E i \in 1..Len(w) :
        /\ w[i] = "$"
        /\ LET j == IF At(w, i + 1) = "{" THEN i + 2 ELSE i + 1
           IN  At(w, j) \in Letters /\ At(w, j + 1) \in NameChars

\* The index after the run of KeyChars that starts at p.
RECURSIVE KeyRunEnd(_, _)
KeyRunEnd(w, p) ==
    IF p <= Len(w) /\ w[p] \in KeyChars THEN KeyRunEnd(w, p + 1) ELSE p

\* Where the key of a "$" at d starts: after an optional "{".
KeyStart(w, d) == IF At(w, d + 1) = "{" THEN d + 2 ELSE d + 1

\* The "$" positions at which \$\{?([A-Za-z0-9\?\$_]+) matches.
KeyedDollars(w) ==
    {d \in 1..Len(w) : w[d] = "$" /\ KeyRunEnd(w, KeyStart(w, d)) > KeyStart(w, d)}

\* The leftmost match of ([^\$]*)\$\{?([A-Za-z0-9\?\$_]+)\}?(.*) in w, as
\* <<[head, key, tail]>>, or <<>> when the expression does not match.  Group
\* 1 cannot cross a "$", so the match starts right after the last "$" that
\* precedes the first keyed one; the key is as long as it can be.
EnvMatch(w) ==
    IF KeyedDollars(w) = {} THEN <<>>
    ELSE LET d == CHOOSE x \in KeyedDollars(w) :
                      \A y \in KeyedDollars(w) : x <= y
             before == {x \in 1..(d - 1) : w[x] = "$"}
             s == IF before = {} THEN 1
                  ELSE 1 + CHOOSE x \in before : \A y \in before : y <= x
             k0 == KeyStart(w, d)
             k1 == KeyRunEnd(w, k0)
             t == IF At(w, k1) = "}" THEN k1 + 1 ELSE k1
         IN  <<[head |-> SubSeq(w, s, d - 1),
                key |-> SubSeq(w, k0, k1 - 1),
                tail |-> SubSeq(w, t, Len(w))]>>

\* What the branches of extend_env_blindly's loop body push after _head.
EnvValue(key) ==
    IF key = <<"?">> THEN FormatInt(PreviousStatus)
    ELSE IF key = <<"$">> THEN FormatInt(ProcessId)
    ELSE IF key \in DOMAIN OsEnv THEN OsEnv[key]
    ELSE IF key \in DOMAIN ShellEnvs THEN ShellEnvs[key]
    ELSE <<>>

\* The loop of extend_env_blindly: _token is what is left, result what has
\* been built.
RECURSIVE ExtendEnvLoop(_, _)
ExtendEnvLoop(token, result) ==
    LET m == EnvMatch(token)
    IN  IF m = <<>> THEN result \o token
        ELSE LET r == result \o m[1].head \o EnvValue(m[1].key)
             IN  IF m[1].tail = <<>> THEN r ELSE ExtendEnvLoop(m[1].tail, r)

ExtendEnvBlindly(token) ==
    IF EnvMatch(token) = <<>> THEN token ELSE ExtendEnvLoop(token, <<>>)

\* expand_env: the rewritten words are written back by index.
ExpandEnv(toks) ==
    [i \in 1..Len(toks) |->
        IF toks[i].sep = Backquote \/ toks[i].sep = "'"
           \/ ~EnvInToken(toks[i].word)
        THEN toks[i]
        ELSE Tok(toks[i].sep, ExtendEnvBlindly(toks[i].word))]

(***************************************************************************)
(* Pass 5: expand_glob.                                                    *)
(***************************************************************************)
\* The entries glob::glob can return for the working directory, in the
\* order it returns them (sorted).
FsEntries ==
    << <<".">>, <<".", ".">>, <<".", "b">>, <<".", "b", "c">>,
       <<"a">>, <<"a", "$", "A", "B">>, <<"a", "b">> >>

ArithChars == DigitChars \cup {" ", ".", "(", ")", "+", "-", "*", "/"}

\* tools::is_arithmetic: a line of digits and arithmetic signs only, with a
\* digit in it.
IsArithmetic(line) ==
    /\ \E i \in 1..Len(line) : line[i] \in DigitChars
    /\ \A i \in 1..Len(line) : line[i] \in ArithChars

\* needs_globbing: some unquoted token of the line holds a "*".
NeedsGlobbing(line) ==
    /\ ~IsArithmetic(line)
    /\ \E i \in 1..Len(CmdToTokens(line)) :
        /\ CmdToTokens(line)[i].sep = ""
        /\ Contains(CmdToTokens(line)[i].word, "*")

\* str::split(' ').
RECURSIVE SplitSpace(_, _, _)
SplitSpace(s, i, cur) ==
    IF i > Len(s) THEN <<cur>>
    ELSE IF s[i] = " " THEN <<cur>> \o SplitSpace(s, i + 1, <<>>)
    ELSE SplitSpace(s, i + 1, Append(cur, s[i]))

\* str::trim().
RECURSIVE Trim(_)
Trim(s) ==
    IF s = <<>> THEN s
    ELSE IF s[1] = " " THEN Trim(Drop(s, 1))
    ELSE IF s[Len(s)] = " " THEN Trim(SubSeq(s, 1, Len(s) - 1))
    ELSE s

\* libs::path::basename: what follows the last "/".
RECURSIVE Basename(_)
Basename(p) ==
    IF Contains(p, "/")
    THEN Basename(Drop(p, CHOOSE i \in 1..Len(p) : p[i] = "/" /\
                              \A j \in 1..(i - 1) : p[j] # "/"))
    ELSE p

\* Whether pattern p from pi on matches name s from si on: "*" stands for
\* any run of characters, "?" for one.
RECURSIVE WildMatch(_, _, _, _)
WildMatch(p, pi, s, si) ==
    IF pi > Len(p) THEN si > Len(s)
    ELSE IF p[pi] = "*"
    THEN \/ WildMatch(p, pi + 1, s, si)
         \/ (si <= Len(s) /\ WildMatch(p, pi, s, si + 1))
    ELSE /\ si <= Len(s)
         /\ (p[pi] = "?" \/ p[pi] = s[si])
         /\ WildMatch(p, pi + 1, s, si + 1)

\* glob::glob(item) is Err for a pattern with three stars in a row, or with
\* "**" that is not a path component of its own.
GlobIsErr(p) ==
    \E i \in 1..Len(p) :
        /\ p[i] = "*" /\ At(p, i + 1) = "*" /\ At(p, i - 1) # "*"
        /\ \/ At(p, i + 2) = "*"
           \/ (i > 1 /\ p[i - 1] # "/")
           \/ (i + 2 <= Len(p) /\ p[i + 2] # "/")

\* The paths glob::glob(item) yields.
GlobPaths(p) == SelectSeq(FsEntries, LAMBDA e : WildMatch(p, 1, e, 1))

\* Whether expand_glob asks glob::glob about this item of a token.
GlobsItem(item) ==
    /\ Contains(item, "*")
    /\ ~StartsWith(Trim(item), <<"'">>)
    /\ ~StartsWith(Trim(item), <<"\"">>)

\* line 293: hidden entries are shown when the pattern's basename starts
\* with ".*".
ShowHidden(item) == StartsWith(Basename(item), <<".", "*">>)

\* What one item of a token adds to result.
GlobItem(item) ==
    IF ~GlobsItem(item) THEN <<item>>
    ELSE LET kept == SelectSeq(GlobPaths(item),
                        LAMBDA path :
                            /\ Basename(path) # <<".", ".">>
                            /\ Basename(path) # <<".">>
                            /\ ~(StartsWith(Basename(path), <<".">>)
                                 /\ ~ShowHidden(item)))
         IN  IF kept = <<>> THEN <<item>> ELSE kept

RECURSIVE GlobItems(_, _)
GlobItems(items, i) ==
    IF i > Len(items) THEN <<>>
    ELSE GlobItem(items[i]) \o GlobItems(items, i + 1)

GlobKeys(toks) ==
    {i - 1 : i \in {x \in 1..Len(toks) :
                    toks[x].sep = "" /\ NeedsGlobbing(toks[x].word)}}

GlobBuff(toks) ==
    [k \in GlobKeys(toks) |-> GlobItems(SplitSpace(toks[k + 1].word, 1, <<>>), 1)]

\* expand_glob returns at once, before it writes anything back, when
\* glob::glob refuses a pattern.
GlobAborts(toks) ==
    \E k \in GlobKeys(toks) :
        LET items == SplitSpace(toks[k + 1].word, 1, <<>>)
        IN  \E i \in 1..Len(items) : GlobsItem(items[i]) /\ GlobIsErr(items[i])

(***************************************************************************)
(* Pass 6: do_command_substitution.  The sub-pipeline a substitution runs  *)
(* is outside this model: out is the stdout it captured.                   *)
(***************************************************************************)
FirstIndex(s, c, from) ==
    IF \E i \in from..Len(s) : s[i] = c
    THEN CHOOSE i \in from..Len(s) : s[i] = c /\ \A j \in from..(i - 1) : s[j] # c
    ELSE 0

\* The match of ^([^`]*)`([^`]+)`(.*)$ as <<[head, tail]>>, or <<>>.
BackquoteMatch(w) ==
    LET a == FirstIndex(w, Backquote, 1)
        b == IF a = 0 THEN 0 ELSE FirstIndex(w, Backquote, a + 1)
    IN  IF a = 0 \/ b = 0 \/ b = a + 1 THEN <<>>
        ELSE <<[head |-> SubSeq(w, 1, a - 1), tail |-> SubSeq(w, b + 1, Len(w))]>>

\* The loop of do_command_substitution_for_dot over one word.
RECURSIVE BackquoteLoop(_, _, _)
BackquoteLoop(token, item, out) ==
    LET m == BackquoteMatch(token)
    IN  IF m = <<>> THEN item \o token
        ELSE LET it == item \o m[1].head \o Trim(out)
             IN  IF m[1].tail = <<>> THEN it
                 ELSE BackquoteLoop(m[1].tail, it, out)

SubstituteForDot(toks, out) ==
    [i \in 1..Len(toks) |->
        IF toks[i].sep = Backquote THEN Tok(toks[i].sep, Trim(out))
        ELSE IF (toks[i].sep = "\"" \/ toks[i].sep = "")
                /\ BackquoteMatch(toks[i].word) # <<>>
        THEN Tok(toks[i].sep, BackquoteLoop(toks[i].word, <<>>, out))
        ELSE toks[i]]

\* The positions i of a "$(" from which \$\(([^\(]+)\) matches: the run of
\* characters other than "(" after it holds a ")" that is not its first
\* character.  DollarClose is the ")" the greedy group stops before.
RECURSIVE NonParenRunEnd(_, _)
NonParenRunEnd(w, p) ==
    IF p <= Len(w) /\ w[p] # "(" THEN NonParenRunEnd(w, p + 1) ELSE p

DollarCloses(w, i) ==
    {j \in (i + 3)..(NonParenRunEnd(w, i + 2) - 1) : w[j] = ")"}

DollarOpens(w) ==
    {i \in 1..Len(w) : w[i] = "$" /\ At(w, i + 1) = "(" /\ DollarCloses(w, i) # {}}

\* should_do_dollar_command_extension: \$\([^\)]+\) matches somewhere.
ShouldDoDollar(w) ==
    \E i \in 1..Len(w) :
        /\ w[i] = "$" /\ At(w, i + 1) = "("
        /\ FirstIndex(w, ")", i + 2) >= i + 3

\* One round of do_command_substitution_for_dollar's loop: the leftmost
\* match of (?P<head>[^\$]*)\$\([^\(]+\)(?P<tail>.*) is replaced by head,
\* the output and tail.
DollarReplace(w, out) ==
    LET i == CHOOSE x \in DollarOpens(w) : \A y \in DollarOpens(w) : x <= y
        j == CHOOSE x \in DollarCloses(w, i) : \A y \in DollarCloses(w, i) : y <= x
    IN  SubSeq(w, 1, i - 1) \o Trim(out) \o SubSeq(w, j + 1, Len(w))

\* The loop over one word: <<>> when find_first_group finds nothing (the
\* function then returns at once), <<word>> otherwise.
RECURSIVE DollarLoop(_, _)
DollarLoop(line, out) ==
    IF ~ShouldDoDollar(line) THEN <<line>>
    ELSE IF DollarOpens(line) = {} THEN <<>>
    ELSE DollarLoop(DollarReplace(line, out), out)

DollarTouches(t) ==
    t.sep # "'" /\ t.sep # "\\" /\ ShouldDoDollar(t.word)

SubstituteForDollar(toks, out) ==
    IF \E i \in 1..Len(toks) :
           DollarTouches(toks[i]) /\ DollarLoop(toks[i].word, out) = <<>>
    THEN toks
    ELSE [i \in 1..Len(toks) |->
            IF DollarTouches(toks[i])
            THEN Tok(toks[i].sep, DollarLoop(toks[i].word, out)[1])
            ELSE toks[i]]

DoCommandSubstitution(toks, out) ==
    SubstituteForDollar(SubstituteForDot(toks, out), out)

\* What a sub-pipeline can print.
CmdOutputs == { <<"o", " ">>, <<>> }

(***************************************************************************)
(* do_expansion, one action per pass.                                      *)
(***************************************************************************)
MaxTokens == 2

\* The words and tokens that token vectors are drawn from.
WLs == <<"l", "s">>
WTilde == <<"~">>
WTildeA == <<"~", "/", "a">>
WBrace == <<"a", "{", "b", ",", "c", "}", "d">>
WVarA == <<"$", "A">>
WVarAB == <<"$", "A", "B">>
WVarTwice == <<"$", "A", "B", "$", "A", "B">>
WVarMixed == <<"$", "{", "A", "B", "}", "-", "$", "?">>
WHiddenGlob == <<".", "b", "*">>
WGlob == <<"a", "*">>
WCmd == <<"c">>
WDollarCmd == <<"$", "(", "c", ")">>
WAll == <<"~", "/", "{", "b", ",", "c", "}", "$", "A", "B", "*">>
WExport == <<"e", "x", "p", "o", "r", "t">>
WPrompt == <<"P", "R", "O", "M", "P", "T", "=">>

TokenUniverse ==
    { Tok("", WLs), Tok("'", WLs), Tok("", Pipe),
      Tok("", WTilde), Tok("", WTildeA),
      Tok("", WBrace),
      Tok("", WVarA), Tok("\"", WVarTwice), Tok("", WVarMixed),
      Tok("", WHiddenGlob), Tok("", WGlob),
      Tok(Backquote, WCmd), Tok("", WDollarCmd),
      Tok("'", WAll) }

\* Lines of their own: export PROMPT=$AB, a quoted word between two brace
\* words, and a pipeline of two aliased commands.
ExportLine == << Tok("", WExport), Tok("", WPrompt \o WVarAB) >>
BraceLine == << Tok("", WBrace), Tok("'", WAll), Tok("", WBrace) >>
PipeLine == << Tok("", WLs), Tok("", Pipe), Tok("", WLs) >>

TokenVectors ==
    {ExportLine, BraceLine, PipeLine} \cup
    UNION { [1..n -> TokenUniverse] : n \in 0..MaxTokens }

AliasConfigs ==
    { (WLs :> <<"l", "s", " ", "-", "l">>),
      (WLs :> <<"~", " ", "l", "s">>) }

InitExpand ==
    /\ jobs = NoJobs
    /\ last = NoCall
    /\ tokens \in TokenVectors
    /\ orig = tokens
    /\ pre = tokens
    /\ alias \in AliasConfigs
    /\ pc = "start"
    /\ cmd_args = "none"
    /\ no_exit = "unset"
    /\ mpc = "off"
    /\ rr = "none"
    /\ run_status = 0
    /\ exit_code = 0
    /\ reaps = 0
    /\ sigmask = {}
    /\ old_mask = {}
    /\ entry_mask = {}
    /\ gid_arg = 0
    /\ tty_pgrp = 0
    /\ given = FALSE
    /\ rcode = 0
    /\ tpc = "off"

\* The guard of do_expansion: export PROMPT=... is left alone.
IsExportPrompt(toks) ==
    /\ Len(toks) >= 2
    /\ toks[1].word = WExport
    /\ StartsWith(toks[2].word, WPrompt)

Guard ==
    /\ pc = "start"
    /\ pc' = IF IsExportPrompt(tokens) THEN "done" ELSE "alias"
    /\ UNCHANGED <<tokens, orig, pre, alias>>

PassAlias ==
    /\ pc = "alias"
    /\ tokens' = ExpandAlias(alias, tokens)
    /\ pre' = tokens
    /\ pc' = "home"
    /\ UNCHANGED <<orig, alias>>

PassHome ==
    /\ pc = "home"
    /\ tokens' = ExpandHome(tokens)
    /\ pre' = tokens
    /\ pc' = "brace"
    /\ UNCHANGED <<orig, alias>>

PassBrace ==
    /\ pc = "brace"
    /\ \E order \in Orders(BraceKeys(tokens)) :
        LET r == ApplyBuff(tokens, BraceBuff(tokens), order, 1)
        IN  /\ tokens' = r.toks
            /\ pc' = IF r.ok THEN "env" ELSE "panic"
    /\ pre' = tokens
    /\ UNCHANGED <<orig, alias>>

PassEnv ==
    /\ pc = "env"
    /\ tokens' = ExpandEnv(tokens)
    /\ pre' = tokens
    /\ pc' = "glob"
    /\ UNCHANGED <<orig, alias>>

\* A slip of do_expansion: expand_env is called once more after expand_glob,
\* so the paths expand_glob puts in are variable-expanded.
PassGlobThenEnv ==
    /\ pc = "glob"
    /\ IF GlobAborts(tokens)
       THEN tokens' = ExpandEnv(tokens) /\ pc' = "subst"
       ELSE \E order \in Orders(GlobKeys(tokens)) :
                LET r == ApplyBuff(tokens, GlobBuff(tokens), order, 1)
                IN  /\ tokens' = ExpandEnv(r.toks)
                    /\ pc' = IF r.ok THEN "subst" ELSE "panic"
    /\ pre' = tokens
    /\ UNCHANGED <<orig, alias>>

PassGlob ==
    /\ pc = "glob"
    /\ IF GlobAborts(tokens)
       THEN tokens' = tokens /\ pc' = "subst"
       ELSE \E order \in Orders(GlobKeys(tokens)) :
                LET r == ApplyBuff(tokens, GlobBuff(tokens), order, 1)
                IN  /\ tokens' = r.toks
                    /\ pc' = IF r.ok THEN "subst" ELSE "panic"
    /\ pre' = tokens
    /\ UNCHANGED <<orig, alias>>

PassSubst ==
    /\ pc = "subst"
    /\ \E out \in CmdOutputs : tokens' = DoCommandSubstitution(tokens, out)
    /\ pre' = tokens
    /\ pc' = "done"
    /\ UNCHANGED <<orig, alias>>

NextExpand ==
    \/ Guard /\ UNCHANGED <<jobVars, mainVars, termVars>>
    \/ PassAlias /\ UNCHANGED <<jobVars, mainVars, termVars>>
    \/ PassHome /\ UNCHANGED <<jobVars, mainVars, termVars>>
    \/ PassBrace /\ UNCHANGED <<jobVars, mainVars, termVars>>
    \/ PassEnv /\ UNCHANGED <<jobVars, mainVars, termVars>>
    \/ PassGlob /\ UNCHANGED <<jobVars, mainVars, termVars>>
    \/ PassSubst /\ UNCHANGED <<jobVars, mainVars, termVars>>

SpecExpand == InitExpand /\ [][NextExpand]_vars

(***************************************************************************)
(* The specifications.  Spec drives the job table, SpecExpand runs         *)
(* do_expansion on a token vector.                                         *)
(***************************************************************************)
Init ==
    /\ jobs = NoJobs
    /\ last = NoCall
    /\ tokens = <<>>
    /\ orig = <<>>
    /\ pre = <<>>
    /\ alias = NoAlias
    /\ pc = "idle"
    /\ cmd_args = "none"
    /\ no_exit = "unset"
    /\ mpc = "off"
    /\ rr = "none"
    /\ run_status = 0
    /\ exit_code = 0
    /\ reaps = 0
    /\ sigmask = {}
    /\ old_mask = {}
    /\ entry_mask = {}
    /\ gid_arg = 0
    /\ tty_pgrp = 0
    /\ given = FALSE
    /\ rcode = 0
    /\ tpc = "off"

Next ==
    \/ InsertJobCall /\ UNCHANGED <<expVars, mainVars, termVars>>
    \/ RemovePidCall /\ UNCHANGED <<expVars, mainVars, termVars>>
    \/ MarkRunningCall /\ UNCHANGED <<expVars, mainVars, termVars>>
    \/ MarkStoppedCall /\ UNCHANGED <<expVars, mainVars, termVars>>

Spec == Init /\ [][Next]_vars

(***************************************************************************)
(* main (src/src/main.rs): the start of the shell, the -c mode and the     *)
(* interactive loop.                                                       *)
(***************************************************************************)
\* What the shell can be started with: no argument, -c STRING, or anything
\* else.
ArgKinds == {"none", "-c", "other"}

\* env::var("NO_EXIT_ON_CTRL_D"): not set, "1", or another value.
EnvValues == {"unset", "1", "0"}

\* What execute::run_procs can return for a line.
Statuses == {0, 1, 127, 130}

\* The exit status of a process whose main returns.
ExitOfReturn == 0

InitMain ==
    /\ jobs = NoJobs
    /\ last = NoCall
    /\ tokens = <<>>
    /\ orig = <<>>
    /\ pre = <<>>
    /\ alias = NoAlias
    /\ pc = "idle"
    /\ cmd_args \in ArgKinds
    /\ no_exit \in EnvValues
    /\ mpc = "main"
    /\ rr = "none"
    /\ run_status = 0
    /\ exit_code = 0
    /\ reaps = 0
    /\ sigmask = {}
    /\ old_mask = {}
    /\ entry_mask = {}
    /\ gid_arg = 0
    /\ tty_pgrp = 0
    /\ given = FALSE
    /\ rcode = 0
    /\ tpc = "off"

\* lines 52-56: an argument other than -c.
ScriptArg ==
    /\ mpc = "main" /\ cmd_args = "other"
    /\ mpc' = "exited"
    /\ exit_code' = ExitOfReturn
    /\ UNCHANGED <<cmd_args, no_exit, rr, run_status, reaps>>

\* lines 57-60: -c STRING.  The line is run, what run_procs returns is
\* dropped and main returns.
DashC ==
    /\ mpc = "main" /\ cmd_args = "-c"
    /\ \E s \in Statuses : run_status' = s
    /\ mpc' = "exited"
    /\ exit_code' = ExitOfReturn
    /\ UNCHANGED <<cmd_args, no_exit, rr, reaps>>

\* lines 63-69: standard input is no terminal.
NonTty ==
    /\ mpc = "main" /\ cmd_args = "none"
    /\ mpc' = "exited"
    /\ exit_code' = ExitOfReturn
    /\ UNCHANGED <<cmd_args, no_exit, rr, run_status, reaps>>

\* lines 71-79: Interface::new fails.
InterfaceError ==
    /\ mpc = "main" /\ cmd_args = "none"
    /\ mpc' = "exited"
    /\ exit_code' = ExitOfReturn
    /\ rr' = "no interface"
    /\ UNCHANGED <<cmd_args, no_exit, run_status, reaps>>

\* lines 71-85: the line editor is set up and the loop is entered.
EnterLoop ==
    /\ mpc = "main" /\ cmd_args = "none"
    /\ mpc' = "top"
    /\ UNCHANGED <<cmd_args, no_exit, rr, run_status, exit_code, reaps>>

\* lines 86-93: the top of an iteration, up to the call of rl.read_line().
Prompt ==
    /\ mpc = "top"
    /\ mpc' = "read"
    /\ reaps' = 0
    /\ UNCHANGED <<cmd_args, no_exit, rr, run_status, exit_code>>

\* lines 94-112: read_line returns a line.  The reaper is called; a blank
\* line ends the iteration, any other line is run and its status goes to
\* the history.  A line that is run can set NO_EXIT_ON_CTRL_D.
ReadInput ==
    /\ mpc = "read"
    /\ reaps' = reaps + 1
    /\ \E blank \in BOOLEAN :
        IF blank
        THEN /\ rr' = "Input blank"
             /\ UNCHANGED <<run_status, no_exit>>
        ELSE /\ rr' = "Input"
             /\ \E s \in Statuses : run_status' = s
             /\ \E e \in EnvValues : no_exit' = e
    /\ mpc' = "top"
    /\ UNCHANGED <<cmd_args, exit_code>>

\* A slip of the Eof branch: NO_EXIT_ON_CTRL_D is not looked at.
ReadEofAlwaysExits ==
    /\ mpc = "read"
    /\ rr' = "Eof"
    /\ mpc' = "exited" /\ exit_code' = ExitOfReturn
    /\ UNCHANGED <<cmd_args, no_exit, run_status, reaps>>

\* lines 113-122: read_line returns Eof.
ReadEof ==
    /\ mpc = "read"
    /\ rr' = "Eof"
    /\ IF no_exit = "1"
       THEN mpc' = "top" /\ UNCHANGED exit_code
       ELSE mpc' = "exited" /\ exit_code' = ExitOfReturn
    /\ UNCHANGED <<cmd_args, no_exit, run_status, reaps>>

\* lines 123-125: read_line returns a signal.
ReadSignal ==
    /\ mpc = "read"
    /\ rr' = "Signal"
    /\ mpc' = "top"
    /\ UNCHANGED <<cmd_args, no_exit, run_status, exit_code, reaps>>

\* lines 126-128: read_line returns an error.
ReadErr ==
    /\ mpc = "read"
    /\ rr' = "Err"
    /\ mpc' = "top"
    /\ UNCHANGED <<cmd_args, no_exit, run_status, exit_code, reaps>>

NextMain ==
    \/ ScriptArg /\ UNCHANGED <<jobVars, expVars, termVars>>
    \/ DashC /\ UNCHANGED <<jobVars, expVars, termVars>>
    \/ NonTty /\ UNCHANGED <<jobVars, expVars, termVars>>
    \/ InterfaceError /\ UNCHANGED <<jobVars, expVars, termVars>>
    \/ EnterLoop /\ UNCHANGED <<jobVars, expVars, termVars>>
    \/ Prompt /\ UNCHANGED <<jobVars, expVars, termVars>>
    \/ ReadInput /\ UNCHANGED <<jobVars, expVars, termVars>>
    \/ ReadEof /\ UNCHANGED <<jobVars, expVars, termVars>>
    \/ ReadSignal /\ UNCHANGED <<jobVars, expVars, termVars>>
    \/ ReadErr /\ UNCHANGED <<jobVars, expVars, termVars>>

SpecMain == InitMain /\ [][NextMain]_vars

(***************************************************************************)
(* give_terminal_to (src/src/shell.rs, lines 218-247).                     *)
(***************************************************************************)
Signals == {"SIGTSTP", "SIGTTIN", "SIGTTOU", "SIGCHLD", "SIGINT"}

\* lines 222-226: the set give_terminal_to builds in mask.
TermSignals == {"SIGTSTP", "SIGTTIN", "SIGTTOU", "SIGCHLD"}

\* A call of give_terminal_to(gid), under any signal mask.  mem::zeroed()
\* leaves old_mask empty.
InitTerm ==
    /\ jobs = NoJobs
    /\ last = NoCall
    /\ tokens = <<>>
    /\ orig = <<>>
    /\ pre = <<>>
    /\ alias = NoAlias
    /\ pc = "idle"
    /\ cmd_args = "none"
    /\ no_exit = "unset"
    /\ mpc = "off"
    /\ rr = "none"
    /\ run_status = 0
    /\ exit_code = 0
    /\ reaps = 0
    /\ sigmask \in SUBSET Signals
    /\ old_mask = {}
    /\ entry_mask = sigmask
    /\ gid_arg \in Gids
    /\ tty_pgrp = 0
    /\ given = FALSE
    /\ rcode = 0
    /\ tpc = "call"

\* lines 219-231: pthread_sigmask(SIG_BLOCK, &mask, &mut old_mask).  With
\* SIG_BLOCK and two valid pointers the call has no way to fail.
GttBlock ==
    /\ tpc = "call"
    /\ old_mask' = sigmask
    /\ sigmask' = sigmask \cup TermSignals
    /\ tpc' = "blocked"
    /\ UNCHANGED <<entry_mask, gid_arg, tty_pgrp, given, rcode>>

\* lines 232-241: tcsetpgrp(1, gid), which the system grants or refuses.
GttTcsetpgrp ==
    /\ tpc = "blocked"
    /\ \E ok \in BOOLEAN :
        IF ok
        THEN rcode' = 0 /\ tty_pgrp' = gid_arg /\ given' = TRUE
        ELSE rcode' = -1 /\ tty_pgrp' = tty_pgrp /\ given' = FALSE
    /\ tpc' = "set"
    /\ UNCHANGED <<sigmask, old_mask, entry_mask, gid_arg>>

\* A slip of the restore: the four signals are unblocked, whatever the
\* mask was before.
GttRestoreUnblocks ==
    /\ tpc = "set"
    /\ sigmask' = sigmask \ TermSignals
    /\ tpc' = "returned"
    /\ UNCHANGED <<old_mask, entry_mask, gid_arg, tty_pgrp, given, rcode>>

\* lines 242-246: pthread_sigmask(SIG_SETMASK, &old_mask, &mut mask), and
\* the return of given.
GttRestore ==
    /\ tpc = "set"
    /\ sigmask' = old_mask
    /\ tpc' = "returned"
    /\ UNCHANGED <<old_mask, entry_mask, gid_arg, tty_pgrp, given, rcode>>

\* The next call, for any gid, under the mask the last call left.
GttCall ==
    /\ tpc = "returned"
    /\ \E g \in Gids : gid_arg' = g
    /\ entry_mask' = sigmask
    /\ old_mask' = {}
    /\ tpc' = "call"
    /\ UNCHANGED <<sigmask, tty_pgrp, given, rcode>>

NextTerm ==
    \/ GttBlock /\ UNCHANGED <<jobVars, expVars, mainVars>>
    \/ GttTcsetpgrp /\ UNCHANGED <<jobVars, expVars, mainVars>>
    \/ GttRestore /\ UNCHANGED <<jobVars, expVars, mainVars>>
    \/ GttCall /\ UNCHANGED <<jobVars, expVars, mainVars>>

SpecTerm == InitTerm /\ [][NextTerm]_vars

(***************************************************************************)
(* The job table's claims.                                                 *)
(***************************************************************************)
MinFree(js) ==
    CHOOSE i \in 1..(Cardinality(DOMAIN js) + 1) :
        /\ i \notin DOMAIN js
        /\ \A j \in 1..(i - 1) : j \in DOMAIN js

PidSet(job) == {job.pids[k] : k \in 1..Len(job.pids)}

\* C1: the job table holds at most one Job per gid.
C1_OneJobPerGid ==
    \A i, j \in DOMAIN jobs : jobs[i].gid = jobs[j].gid => i = j

\* C2: a Job that insert_job creates gets, as id and as key, the smallest
\* positive integer that no Job of the table used at that moment.
C2_NewJobGetsLowestFreeId ==
    [][ \A i \in DOMAIN jobs' \ DOMAIN jobs :
            /\ i = MinFree(jobs)
            /\ jobs'[i].id = i ]_vars

\* insert_job has just created a Job under an id below one still in use: an
\* id that a reaped Job had freed.
C2_Witness ==
    /\ last.op = "insert_job"
    /\ \E i, j \in DOMAIN jobs :
        /\ jobs[i].pids = <<last.pid>>
        /\ jobs[i].gid = last.gid
        /\ i < j

\* C3: remove_pid_from_job(gid, pid), called for a Job that holds pid,
\* removes the pid from that Job; the Job leaves the table and is returned
\* exactly when its pid list has become empty, and otherwise None is
\* returned and the Job stays.
C3_RemovePidRemoves ==
    [][ last'.op = "remove_pid_from_job" =>
        \A i \in DOMAIN jobs :
            (jobs[i].gid = last'.gid /\ last'.pid \in PidSet(jobs[i])) =>
                LET rest == SelectSeq(jobs[i].pids, LAMBDA p : p # last'.pid)
                IN  IF rest = <<>>
                    THEN /\ i \notin DOMAIN jobs'
                         /\ last'.ret = <<[jobs[i] EXCEPT !.pids = <<>>]>>
                    ELSE /\ i \in DOMAIN jobs'
                         /\ jobs'[i].pids = rest
                         /\ last'.ret = <<>> ]_vars

\* C4: every Job of the table has at least one pid and is stored under the
\* key equal to its own id.
C4_JobsNonEmptyAndKeyed ==
    \A i \in DOMAIN jobs :
        /\ Len(jobs[i].pids) >= 1
        /\ jobs[i].id = i

\* remove_pid_from_job has just returned a completed Job, another Job is
\* left in the table, and a Job has been marked stopped.
C4_Witness ==
    /\ last.op = "remove_pid_from_job"
    /\ last.ret # <<>>
    /\ \E i \in DOMAIN jobs : jobs[i].status = "Stopped"

(***************************************************************************)
(* The expansion passes' claims.  Each claim is stated by what the pass is *)
(* said to produce, computed here on its own and compared with what the    *)
(* pass produced.                                                          *)
(***************************************************************************)
RECURSIVE Concat(_)
Concat(ss) == IF ss = <<>> THEN <<>> ELSE ss[1] \o Concat(Drop(ss, 1))

\* C5: after do_expansion every token that came in single-quoted is still
\* in the vector, with the same sep and the same word.
C5_SingleQuotedKept ==
    pc = "done" =>
        \A i \in 1..Len(orig) :
            orig[i].sep = "'" => \E j \in 1..Len(tokens) : tokens[j] = orig[i]

\* Command head: the first token, or the one after an unquoted "|".
AtHead(toks, i) ==
    i = 1 \/ (toks[i - 1].sep = "" /\ toks[i - 1].word = Pipe)

AliasExpected(al, toks) ==
    Concat([i \in 1..Len(toks) |->
        IF AtHead(toks, i) /\ toks[i].sep = "" /\ toks[i].word \in DOMAIN al
        THEN CmdToTokens(al[toks[i].word])
        ELSE <<toks[i]>>])

\* C6: expand_alias replaces a token by the tokens of the alias body exactly
\* when the token is at command head, is unquoted and names an alias; the
\* other tokens stay as they are, in order, and the replacement is not
\* expanded again.
C6_AliasAtUnquotedHead ==
    pc = "home" => tokens = AliasExpected(alias, pre)

\* A word prefix{a,b,c}suffix: one "{", a "}" after it, a "," between.
BraceOpen(w) == FirstIndex(w, "{", 1)
BraceClose(w) == IF BraceOpen(w) = 0 THEN 0 ELSE FirstIndex(w, "}", BraceOpen(w))
IsBraceWord(w) ==
    /\ BraceClose(w) # 0
    /\ \A i \in 1..Len(w) : w[i] = "{" => i = BraceOpen(w)
    /\ \E i \in BraceOpen(w)..BraceClose(w) : w[i] = ","

RECURSIVE SplitComma(_, _, _)
SplitComma(s, i, cur) ==
    IF i > Len(s) THEN <<cur>>
    ELSE IF s[i] = "," THEN <<cur>> \o SplitComma(s, i + 1, <<>>)
    ELSE SplitComma(s, i + 1, Append(cur, s[i]))

BraceExpected(toks) ==
    Concat([i \in 1..Len(toks) |->
        IF toks[i].sep = "" /\ IsBraceWord(toks[i].word)
        THEN LET w == toks[i].word
                 alts == SplitComma(SubSeq(w, BraceOpen(w) + 1, BraceClose(w) - 1),
                                    1, <<>>)
             IN  [j \in 1..Len(alts) |->
                    Tok("", SubSeq(w, 1, BraceOpen(w) - 1) \o alts[j]
                            \o SubSeq(w, BraceClose(w) + 1, Len(w)))]
        ELSE <<toks[i]>>])

\* C7: expand_brace puts, in the place of each unquoted prefix{a,b,c}suffix
\* token, one token per alternative, and leaves the other tokens as they
\* are and in order, however many brace tokens the vector holds.
C7_BraceInPlace ==
    pc = "env" => tokens = BraceExpected(pre)

\* The index after the run of NameChars that starts at p.
RECURSIVE NameRunEnd(_, _)
NameRunEnd(w, p) ==
    IF p <= Len(w) /\ w[p] \in NameChars THEN NameRunEnd(w, p + 1) ELSE p

VarLookup(name) ==
    IF name \in DOMAIN OsEnv THEN OsEnv[name]
    ELSE IF name \in DOMAIN ShellEnvs THEN ShellEnvs[name]
    ELSE <<>>

\* The variable reference that starts at the "$" at d, as <<value, index
\* after it>>, or <<>> when none starts there.
VarRefAt(w, d) ==
    IF At(w, d) # "$" THEN <<>>
    ELSE IF At(w, d + 1) = "?" THEN <<FormatInt(PreviousStatus), d + 2>>
    ELSE IF At(w, d + 1) = "$" THEN <<FormatInt(ProcessId), d + 2>>
    ELSE IF At(w, d + 1) = "{" /\ NameRunEnd(w, d + 2) > d + 2
            /\ At(w, NameRunEnd(w, d + 2)) = "}"
    THEN <<VarLookup(SubSeq(w, d + 2, NameRunEnd(w, d + 2) - 1)),
           NameRunEnd(w, d + 2) + 1>>
    ELSE IF NameRunEnd(w, d + 1) > d + 1
    THEN <<VarLookup(SubSeq(w, d + 1, NameRunEnd(w, d + 1) - 1)),
           NameRunEnd(w, d + 1)>>
    ELSE <<>>

RECURSIVE EnvExpected(_, _)
EnvExpected(w, p) ==
    IF p > Len(w) THEN <<>>
    ELSE LET r == VarRefAt(w, p)
         IN  IF r = <<>> THEN <<w[p]>> \o EnvExpected(w, p + 1)
             ELSE r[1] \o EnvExpected(w, r[2])

HasVarRef(w) == \E d \in 1..Len(w) : VarRefAt(w, d) # <<>>

\* C8: expand_env substitutes every $NAME, ${NAME}, $? and $$ of every token
\* whose sep is neither ' nor the backquote, wherever it stands in the word
\* and whatever the length of NAME, and leaves the rest of the word alone.
C8_EnvEveryReference ==
    pc = "glob" =>
        \A i \in 1..Len(pre) :
            (pre[i].sep # "'" /\ pre[i].sep # Backquote /\ HasVarRef(pre[i].word))
                => tokens[i] = Tok(pre[i].sep, EnvExpected(pre[i].word, 1))

\* A "~" that stands at the start of the word or after a space, and before
\* a space, a "/" or the end of the word.
TildeStandsAlone(w, i) ==
    /\ w[i] = "~"
    /\ (i = 1 \/ w[i - 1] = " ")
    /\ (i = Len(w) \/ w[i + 1] = " " \/ w[i + 1] = "/")

HomeExpected(w) ==
    Concat([i \in 1..Len(w) |-> IF TildeStandsAlone(w, i) THEN Home ELSE <<w[i]>>])

\* C9: expand_home replaces, in every unquoted token, each "~" that stands
\* alone by the home directory, and leaves every other "~" and every quoted
\* token as it is.
C9_HomeEveryLoneTilde ==
    pc = "brace" =>
        /\ Len(tokens) = Len(pre)
        /\ \A i \in 1..Len(pre) :
            tokens[i] = IF pre[i].sep = ""
                        THEN Tok("", HomeExpected(pre[i].word))
                        ELSE pre[i]

IsGlobToken(t) == t.sep = "" /\ Contains(t.word, "*")

GlobExpected(w) ==
    LET shown == SelectSeq(FsEntries,
                    LAMBDA e :
                        /\ WildMatch(w, 1, e, 1)
                        /\ e # <<".">> /\ e # <<".", ".">>
                        /\ (StartsWith(Basename(e), <<".">>)
                            => StartsWith(Basename(w), <<".">>)))
    IN  IF shown = <<>> THEN <<Tok("", w)>>
        ELSE [j \in 1..Len(shown) |-> Tok("", shown[j])]

\* C10: expand_glob puts, in the place of an unquoted token with a "*", the
\* paths it matches, without "." and "..", and without the hidden entries
\* unless the pattern's basename starts with "."; a token that matches
\* nothing stays as it is.  Stated for the vectors with one such token, in
\* which no position can shift.
C10_GlobShowsHiddenForDotPattern ==
    (pc = "subst" /\ Cardinality({i \in 1..Len(pre) : IsGlobToken(pre[i])}) = 1) =>
        tokens = Concat([i \in 1..Len(pre) |->
                    IF IsGlobToken(pre[i]) THEN GlobExpected(pre[i].word)
                    ELSE <<pre[i]>>])

(***************************************************************************)
(* The order of the passes.                                                *)
(***************************************************************************)
PassOrder == <<"alias", "home", "brace", "env", "glob", "subst", "done">>

PosOf(p) == CHOOSE i \in 1..Len(PassOrder) : PassOrder[i] = p

\* What one pass, run alone over the whole vector, can leave behind.
PassResults(p, al, toks) ==
    CASE p = "alias" -> {ExpandAlias(al, toks)}
      [] p = "home"  -> {ExpandHome(toks)}
      [] p = "brace" -> {ApplyBuff(toks, BraceBuff(toks), o, 1).toks :
                            o \in Orders(BraceKeys(toks))}
      [] p = "env"   -> {ExpandEnv(toks)}
      [] p = "glob"  -> IF GlobAborts(toks) THEN {toks}
                        ELSE {ApplyBuff(toks, GlobBuff(toks), o, 1).toks :
                                 o \in Orders(GlobKeys(toks))}
      [] p = "subst" -> {DoCommandSubstitution(toks, out) : out \in CmdOutputs}

\* C11: do_expansion runs alias, tilde, brace, variable, glob and command
\* substitution in this order: every step is one whole pass over the vector
\* the pass before it left, it does to the vector what that pass alone
\* does, and the next step is the next pass of the list, so nothing an
\* earlier pass does is done again to what a later pass put in (a path that
\* expand_glob puts in keeps its braces and its dollar signs).
C11_PassesInOrder ==
    [][(pc \in {"alias", "home", "brace", "env", "glob", "subst"}) =>
          /\ tokens' \in PassResults(pc, alias, tokens)
          /\ pc' \in {PassOrder[PosOf(pc) + 1], "panic"}]_vars

C11_Witness ==
    /\ pc = "done"
    /\ \E i \in 1..Len(orig) : orig[i] = Tok("", WGlob)
    /\ \E j \in 1..Len(tokens) : tokens[j] = Tok("", <<"a", "$", "A", "B">>)
    /\ \A j \in 1..Len(tokens) : tokens[j].word # WGlob

(***************************************************************************)
(* The -c mode and the interactive loop.                                   *)
(***************************************************************************)
\* C12: in -c mode the shell process exits with the status that running
\* the line returned.
C12_DashCExitsWithLineStatus ==
    (mpc = "exited" /\ cmd_args = "-c") => exit_code = run_status

\* C13: the interactive loop ends only on an Eof from read_line while
\* NO_EXIT_ON_CTRL_D is not "1": a step of the loop that ends it is such an
\* Eof, whatever the lines run before returned, and an Eof under
\* NO_EXIT_ON_CTRL_D = "1" goes on with the next iteration.
C13_LoopEndsOnlyOnEof ==
    [][(mpc \in {"top", "read"}) =>
          /\ (mpc' = "exited" => (rr' = "Eof" /\ no_exit # "1"))
          /\ ((mpc = "read" /\ rr' = "Eof" /\ no_exit = "1") => mpc' = "top")]_vars

\* The loop has gone on after a line that failed and after an Eof under
\* NO_EXIT_ON_CTRL_D = "1".
C13_Witness ==
    /\ mpc = "top"
    /\ rr = "Eof"
    /\ no_exit = "1"
    /\ run_status = 127

\* C14: give_terminal_to(gid) has SIGTSTP, SIGTTIN, SIGTTOU and SIGCHLD
\* blocked from before its call of tcsetpgrp until after it, the terminal
\* goes to gid and to no other group, on return the signal mask is the one
\* the call started under, whether tcsetpgrp succeeded or not, and the
\* value returned is true exactly when tcsetpgrp succeeded.
C14_TerminalGivenUnderMask ==
    /\ (tpc \in {"blocked", "set"} => TermSignals \subseteq sigmask)
    /\ (tpc \in {"set", "returned"} =>
            /\ given <=> (rcode = 0)
            /\ (rcode = 0 => tty_pgrp = gid_arg))
    /\ (tpc = "returned" => sigmask = entry_mask)

\* A call that tcsetpgrp refused has returned, under a mask that blocked
\* one of the four signals already and left another open.
C14_Witness ==
    /\ tpc = "returned"
    /\ rcode = -1
    /\ ~given
    /\ "SIGCHLD" \in sigmask
    /\ "SIGTSTP" \notin sigmask

\* C15: the reaper runs at the top of every iteration of the interactive
\* loop: when main calls rl.read_line(), jobc::try_wait_bg_jobs has been
\* called once in this iteration.
C15_ReaperBeforeRead == mpc = "read" => reaps = 1

====
